---- MODULE Spec2Model ----
(***************************************************************************)
(* Sentinel guardian terminal: the monitoring state machine and the alert  *)
(* lifecycle of src/App.tsx.  The file holds two builds of the component:  *)
(* v6.0 (lines 1-1012) and v4.0 (lines 1014-1984).  `variant` selects the  *)
(* build; the React state of both builds is kept in one set of variables   *)
(* (v6 name / v4 name):                                                    *)
(*   currentStatus / mode, biometricSignature / ownerFace,                 *)
(*   securityVault / logs, isShieldActive / isMonitoring,                  *)
(*   isAiProcessing / isAiThinking.                                        *)
(* A handler runs atomically up to its next await; the render and the      *)
(* effects that follow its state updates are part of the same step.        *)
(***************************************************************************)
EXTENDS Integers, Sequences, FiniteSets, TLC

\* ---------------------------------------------------------------- bounds
\* detections (alert workflows) per run
MaxIncidents == 2
\* rows already in the remote table when the app starts
MaxRemoteInit == 1
\* newest events kept by the event log where the log is observed (the code
\* keeps 150)
MaxSystemLogs == 1
\* chat requests in flight at a time
MaxChats == 1
\* largest retries argument given to callWithRetry
MaxRetries == 3
\* most comma-separated entries in GEMINI_KEYS_POOL
MaxPool == 2
\* newest messages of the conversation kept where it is observed
MaxConduit == 2

\* arming attempts short of a full console at which the full-size console
\* starts
MaxMargin == 4

\* CONFIG.UI.MAX_SYSTEM_LOGS, and the literal of slice(0, 150) in v6.0
MAX_SYSTEM_LOGS == 150

\* ------------------------------------------------------------- constants
Null == "null"
\* the URL the storage service hands back for an upload
VaultUrl == "https://x/y"
\* the text the analysis service returns
Forensics == "forensics"
\* ids made by Date.now().toString() never equal an id assigned by the table
TempIdBase == 100

Variants == {"v6", "v4"}
Incidents == 1..MaxIncidents

VARIABLES
  variant,                 \* which build of App.tsx runs
  currentStatus,           \* the operating mode
  biometricSignature,      \* enrolled owner image, or Null
  securityVault,           \* local incident log, newest first
  isShieldActive,          \* the armed flag that drives the audit interval
  isAiProcessing,          \* AI busy flag
  isProcessingNeuralAudit, \* v4 only: audit in flight
  securityLevel,           \* v4 only: user preference
  auditIntervalId,         \* TRUE while the audit setInterval is installed
  handshake,               \* position of the startup sync
  remote,                  \* rows of the remote table security_logs
  incidents,               \* per detection: position of its alert workflow
  disarmed,                \* history: the user's last arm/disarm request was a disarm
  terminalLogs,            \* event log, newest first (v4: systemLogs)
  maxSystemLogs,           \* how many events the log keeps
  visionNode,              \* camera status shown to the user (v4: visionStatus)
  sensorBoot,              \* TRUE while the startup getUserMedia() is pending
  chatPending,             \* securityChat() calls in flight
  environment,             \* the credentials the build was given
  call,                    \* the callWithRetry() execution
  request,                 \* the request made through supabaseClient
  dataChunksRef,           \* recorded chunks, shared by all recordings (v4: chunksRef)
  chunkSize,               \* event.data.size of the data a recorder delivers
  neuralConduit,           \* the conversation, oldest first (v4: chatMessages)
  conduitWindow            \* how many of its newest messages are observed

vars == <<variant, currentStatus, biometricSignature, securityVault,
          isShieldActive, isAiProcessing, isProcessingNeuralAudit,
          securityLevel, auditIntervalId, handshake, remote, incidents,
          disarmed, terminalLogs, maxSystemLogs, visionNode, sensorBoot,
          chatPending, environment, call, request, dataChunksRef,
          chunkSize, neuralConduit, conduitWindow>>

\* -------------------------------------------------------------- helpers
\* a row of the remote table
RemoteRow(id, url, analysis, level) ==
  [id |-> id, screen_recording_url |-> url, ai_analysis |-> analysis,
   threat_level |-> level]

\* a SecurityLog; origin is history only: the detection that made the
\* record, 0 for a record loaded from the remote table
SecurityLog(id, analysis, level, status, url, origin) ==
  [id |-> id, aiAnalysis |-> analysis, threatLevel |-> level,
   status |-> status, screenRecordingUrl |-> url, origin |-> origin]

\* the state of a detection that has not happened yet; tried, failed and
\* records are history: the workflow steps issued so far, those that failed,
\* and the number of records the workflow has added to the local log
NoIncident ==
  [pc |-> "unused", rowId |-> 0, analysis |-> Null, threat |-> Null,
   rearm |-> "unset", recorder |-> "none", recTimer |-> FALSE,
   stream |-> "none", url |-> Null, tried |-> {}, failed |-> {},
   records |-> 0]

Used == {w \in Incidents : incidents[w].pc # "unused"}

\* record.screen_recording_url || null
OrNull(url) == IF url = Null THEN Null ELSE url

\* data.map(record => ({... status: 'Archived', ...}))
mappedRecords(data) ==
  [i \in 1..Len(data) |->
     SecurityLog(data[i].id, data[i].ai_analysis, data[i].threat_level,
                 "Archived", OrNull(data[i].screen_recording_url), 0)]

\* .order('created_at', { ascending: false }): newest row first
Reverse(s) == [i \in 1..Len(s) |-> s[Len(s) + 1 - i]]

\* prev.map(log => log.id === dbRowId ? {...log, screenRecordingUrl, status: 'Archived'} : log)
hotUpdate(prev, dbRowId, url) ==
  [i \in 1..Len(prev) |->
     IF prev[i].id = dbRowId
     THEN [prev[i] EXCEPT !.screenRecordingUrl = url, !.status = "Archived"]
     ELSE prev[i]]

\* mutant: the reconciliation sets the analysis and keeps the temporary id
reconcile_keepsTempId(prev, tempId, dbRecordId, aiAnalysis) ==
  [i \in 1..Len(prev) |->
     IF prev[i].id = tempId
     THEN [prev[i] EXCEPT !.aiAnalysis = aiAnalysis]
     ELSE prev[i]]

\* prev.map(l => l.id === tempId ? {...l, id: dbRecordId, aiAnalysis} : l)
reconcile(prev, tempId, dbRecordId, aiAnalysis) ==
  [i \in 1..Len(prev) |->
     IF prev[i].id = tempId
     THEN [prev[i] EXCEPT !.id = dbRecordId, !.aiAnalysis = aiAnalysis]
     ELSE prev[i]]

\* the interval effect: after the render the interval is installed exactly
\* when the armed flag is set
auditIntervalEffect(shield) == shield

\* the insert appends a row and the table assigns the next id
insertRow(rows, analysis, level) ==
  Append(rows, RemoteRow(Len(rows) + 1, Null, analysis, level))

\* .update({ screen_recording_url }).match({ id })
updateRow(rows, id, url) ==
  [i \in 1..Len(rows) |->
     IF rows[i].id = id THEN [rows[i] EXCEPT !.screen_recording_url = url]
     ELSE rows[i]]

\* an entry of the event log
Event(msg, priority) == [message |-> msg, severity |-> priority]

\* array.slice(0, n)
slice(s, n) == IF Len(s) <= n THEN s ELSE SubSeq(s, 1, n)

\* mutant: the new entry is put behind the entries the log holds
dispatchSystemEvent_behind(prev, msg, priority) ==
  slice(prev \o <<Event(msg, priority)>>, maxSystemLogs)

\* setTerminalLogs(prev => [{message, severity}, ...prev].slice(0, 150))
dispatchSystemEvent(prev, msg, priority) ==
  slice(<<Event(msg, priority)>> \o prev, maxSystemLogs)

\* the log after the dispatches of one handler step, in call order
RECURSIVE dispatched(_, _)
dispatched(prev, events) ==
  IF events = <<>> THEN prev
  ELSE dispatched(dispatchSystemEvent(prev, Head(events).message,
                                      Head(events).severity),
                  Tail(events))

\* the dispatches made while the two startup effects run to their first await
mountEvents(build) ==
  IF build = "v6"
  THEN <<Event("Protocol 0: Initializing Global Defense Suite...", "system"),
         Event("Hardware: Calibrating Optical Sensors...", "system")>>
  ELSE <<Event("Initializing secure handshake with Cloud Vault...", "info"),
         Event("Warming up optical sensors...", "info")>>

\* a message of the conversation
Message(role, text) == [role |-> role, text |-> text]

\* the last n elements of s
tail(s, n) == IF Len(s) <= n THEN s ELSE SubSeq(s, Len(s) - n + 1, Len(s))

\* setNeuralConduit(prev => [...prev, message]) for each message in turn
said(prev, messages) == tail(prev \o messages, conduitWindow)

\* ------------------------------------------------------------- services
\* retries = 3
DefaultRetries == 3

\* String.prototype.trim on the strings the model uses
trim(k) ==
  CASE k = " k1 " -> "k1"
    [] k = "  " -> ""
    [] OTHER -> k

\* Array.from(new Set(keys)): the first occurrence of every key, in order
RECURSIVE unique(_)
unique(keys) ==
  IF keys = <<>> THEN <<>>
  ELSE LET front == unique(SubSeq(keys, 1, Len(keys) - 1))
           k == keys[Len(keys)]
       IN IF \E i \in 1..Len(front) : front[i] = k
          THEN front ELSE Append(front, k)

\* the pool entries, then the single key, without duplicates and empty strings
getAllKeys(env) ==
  LET pool == [i \in 1..Len(env.GEMINI_KEYS_POOL) |->
                 trim(env.GEMINI_KEYS_POOL[i])]
      keys == IF env.GEMINI_API_KEY # Null /\ env.GEMINI_API_KEY # ""
              THEN Append(pool, env.GEMINI_API_KEY) ELSE pool
  IN SelectSeq(unique(keys), LAMBDA k : k # "")

keysPool == getAllKeys(environment)

\* Math.random() picks any key of the pool
getRandomKey ==
  IF Len(keysPool) = 0 THEN {"MISSING_KEY"}
  ELSE {keysPool[i] : i \in 1..Len(keysPool)}

\* both Supabase credentials are there
validateCredentials(env) ==
  ~(env.SUPABASE_URL = Null \/ env.SUPABASE_ANON_KEY = Null)

isConfigValid == validateCredentials(environment)

\* the credentials a build can be given; a pool is split at its commas
Environments ==
  [SUPABASE_URL : {Null, "https://p.supabase.co"},
   SUPABASE_ANON_KEY : {Null, "anon"},
   GEMINI_KEYS_POOL :
     UNION {[1..n -> {"", " k1 ", "k2"}] : n \in 0..MaxPool},
   GEMINI_API_KEY : {Null, "k1"}]

\* what an attempt of fn(model) ends with: a value or a thrown error; an
\* error without a status has status 0
Value == [kind |-> "value", status |-> 0, message |-> <<Forensics>>]
Errors ==
  {[kind |-> "error", status |-> 429, message |-> <<"quota">>],
   [kind |-> "error", status |-> 503, message |-> <<"overloaded">>],
   [kind |-> "error", status |-> 0, message |-> <<"got", "429">>],
   [kind |-> "error", status |-> 400, message |-> <<"invalid", "key">>]}

\* message.includes(part)
includes(message, part) == \E i \in 1..Len(message) : message[i] = part

\* error.status === 429 || error.status === 503 || message includes '429'
retryable(error) ==
  error.status = 429 \/ error.status = 503 \/ includes(error.message, "429")

\* no callWithRetry() has been called
NoCall ==
  [pc |-> "idle", fn |-> Null, retries |-> 0, i |-> 0, apiKey |-> Null,
   attempts |-> <<>>, lastError |-> Null, settled |-> Null]

\* no request has been made
NoRequest == [op |-> Null, pc |-> "idle", sent |-> FALSE, success |-> FALSE]

\* a build that was given every credential, its services untouched
Deployed ==
  /\ environment = [SUPABASE_URL |-> "https://p.supabase.co",
                    SUPABASE_ANON_KEY |-> "anon",
                    GEMINI_KEYS_POOL |-> <<>>,
                    GEMINI_API_KEY |-> "k1"]
  /\ call = NoCall
  /\ request = NoRequest

\* ----------------------------------------------------------------- Init
InitRemote ==
  UNION {[1..n -> {RemoteRow(0, u, Forensics, "High") : u \in {Null, VaultUrl}}]
         : n \in 0..MaxRemoteInit}

\* the state of App after the first render and its effects, with a log of
\* cap events
\* the event of an arming attempt made while no signature is enrolled
armingRejected(build) ==
  IF build = "v6"
  THEN Event("Shield: Arming rejected. Missing master signature.", "high")
  ELSE Event("Arming blocked: No biometric signature found.", "warn")

\* the app after mount and `attempts` presses of the arm button, nothing
\* enrolled and no startup request answered yet
Started(cap, attempts) ==
  /\ variant \in Variants
  /\ currentStatus = IF attempts > 0 THEN "ENROLLING"
                     ELSE IF variant = "v6" THEN "INITIALIZING" ELSE "IDLE"
  /\ biometricSignature = Null
  /\ securityVault = <<>>
  /\ isShieldActive = FALSE
  /\ isAiProcessing = FALSE
  /\ isProcessingNeuralAudit = FALSE
  /\ securityLevel = "HIGH"
  /\ auditIntervalId = FALSE
  /\ handshake = "health"
  /\ \E r \in InitRemote :
        remote = [i \in 1..Len(r) |-> [r[i] EXCEPT !.id = i]]
  /\ incidents = [w \in Incidents |-> NoIncident]
  /\ disarmed = FALSE
  /\ maxSystemLogs = cap
  /\ terminalLogs = slice([i \in 1..attempts |-> armingRejected(variant)]
                            \o dispatched(<<>>, mountEvents(variant)), cap)
  /\ visionNode = IF variant = "v6" THEN "STANDBY" ELSE "OFFLINE"
  /\ sensorBoot = TRUE
  /\ chatPending = 0
  /\ dataChunksRef = <<>>
  /\ neuralConduit = <<>>

\* the app after mount
Mount(cap) == Started(cap, 0)

\* the app of a build that was given every credential; its recorders deliver
\* no data
Boot(cap) == Mount(cap) /\ Deployed /\ chunkSize = 0 /\ conduitWindow = 0

\* the same with recorders that deliver data
EvidenceInit ==
  Mount(0) /\ Deployed /\ chunkSize = 1 /\ conduitWindow = 0

\* the same with the newest MaxConduit messages of the conversation observed
ConduitInit ==
  Mount(0) /\ Deployed /\ chunkSize = 0 /\ conduitWindow = MaxConduit

\* the event log is not observed
Init == Boot(0)

\* the newest MaxSystemLogs events are observed
LogInit == Boot(MaxSystemLogs)

\* the console with the capacity of the code, after enough rejected arming
\* attempts to bring it within MaxMargin entries of that capacity or past it
FullLogInit ==
  /\ \E attempts \in (MAX_SYSTEM_LOGS - MaxMargin)..MAX_SYSTEM_LOGS :
        Started(MAX_SYSTEM_LOGS, attempts)
  /\ Deployed /\ chunkSize = 0 /\ conduitWindow = 0


\* ------------------------------------------------- frames of the actions
Flags == <<isAiProcessing, isProcessingNeuralAudit>>
History == <<securityLevel, disarmed>>
Store == <<securityVault, remote>>
Build ==
  <<variant, maxSystemLogs, environment, call, request, chunkSize,
    conduitWindow>>
Setup == <<Build, dataChunksRef>>
Vision == <<visionNode, sensorBoot>>
Conduit == <<chatPending, neuralConduit>>

\* ======================================================== v6.0 handlers
\* await checkDatabaseConnection() resolves
initializeSentinel_health(success) ==
  /\ variant = "v6" /\ handshake = "health"
  /\ IF success
     THEN /\ handshake' = "query"
          /\ UNCHANGED currentStatus
     ELSE /\ handshake' = "done"
          /\ currentStatus' = "HARDWARE_FAULT"
  /\ terminalLogs' = dispatched(terminalLogs,
       IF success THEN <<>>
       ELSE <<Event("Handshake Error", "critical")>>)
  /\ UNCHANGED <<Setup, Vision, Conduit, biometricSignature, isShieldActive, History,
                 auditIntervalId, incidents, Flags, Store>>

\* await supabase.from('security_logs').select('*')... resolves
initializeSentinel_query(error) ==
  /\ variant = "v6" /\ handshake = "query"
  /\ handshake' = "done"
  /\ IF error
     THEN /\ currentStatus' = "HARDWARE_FAULT"
          /\ UNCHANGED securityVault
     ELSE /\ securityVault' = mappedRecords(Reverse(remote))
          /\ currentStatus' = "IDLE"
  /\ terminalLogs' = dispatched(terminalLogs,
       IF error THEN <<Event("Handshake Error", "critical")>>
       ELSE <<Event("Handshake Complete", "low")>>)
  /\ UNCHANGED <<Setup, Vision, Conduit, biometricSignature, isShieldActive, History,
                 auditIntervalId, incidents, Flags, remote>>

\* await navigator.mediaDevices.getUserMedia() of the startup effect resolves
bootOpticalSensors(granted) ==
  /\ variant = "v6" /\ sensorBoot
  /\ sensorBoot' = FALSE
  /\ visionNode' = IF granted THEN "OPTIMAL" ELSE "OFFLINE"
  /\ terminalLogs' = dispatched(terminalLogs,
       IF granted
       THEN <<Event("Vision Node: Online. Stream integrity 100%.", "low")>>
       ELSE <<Event("Sensor Fault: Access Denied", "critical")>>)
  /\ UNCHANGED <<Setup, chatPending, currentStatus, biometricSignature,
                 isShieldActive, History, auditIntervalId, handshake,
                 incidents, Flags, Store>>
  /\ neuralConduit' = said(neuralConduit,
       IF granted THEN <<>>
       ELSE <<Message("ai", "CRITICAL_ALERT: Optical sensor array offline.")>>)

\* mutant: a failed capture leaves the terminal in enrollment mode
handleBiometricEnrollment6_loud(snapshot) ==
  /\ variant = "v6" /\ biometricSignature = Null
  /\ IF snapshot # Null
     THEN /\ biometricSignature' = snapshot
          /\ currentStatus' = "MONITORING"
          /\ isShieldActive' = TRUE
          /\ disarmed' = FALSE
     ELSE /\ currentStatus' = "ENROLLING"
          /\ UNCHANGED <<biometricSignature, isShieldActive, disarmed>>
  /\ auditIntervalId' = auditIntervalEffect(isShieldActive')
  /\ terminalLogs' = dispatched(terminalLogs,
       <<Event("Protocol 1: Initiating Biometric Hashing...", "med")>>)
  /\ UNCHANGED <<Setup, Vision, chatPending, securityLevel, handshake,
                 incidents, Flags, Store>>
  /\ neuralConduit' = said(neuralConduit,
       IF snapshot = Null THEN <<>>
       ELSE <<Message("ai", "IDENTITY_LOCKED: Neural link established.")>>)

\* the Run_Enrollment button, rendered while no signature is enrolled
handleBiometricEnrollment6(snapshot) ==
  /\ variant = "v6" /\ biometricSignature = Null
  /\ IF snapshot # Null
     THEN /\ biometricSignature' = snapshot
          /\ currentStatus' = "MONITORING"
          /\ isShieldActive' = TRUE
          /\ disarmed' = FALSE
     ELSE UNCHANGED <<biometricSignature, currentStatus, isShieldActive,
                      disarmed>>
  /\ auditIntervalId' = auditIntervalEffect(isShieldActive')
  /\ terminalLogs' = dispatched(terminalLogs,
       <<Event("Protocol 1: Initiating Biometric Hashing...", "med"),
         IF snapshot # Null
         THEN Event("Handshake: Master Identity successfully hashed.", "system")
         ELSE Event("Handshake: Sensor data corrupted.", "error")>>)
  /\ UNCHANGED <<Setup, Vision, chatPending, securityLevel, handshake, incidents, Flags, Store>>
  /\ neuralConduit' = said(neuralConduit,
       IF snapshot = Null THEN <<>>
       ELSE <<Message("ai", "IDENTITY_LOCKED: Neural link established.")>>)

\* the Purge_Auth button, rendered while a signature is enrolled
purgeAuth ==
  /\ variant = "v6" /\ biometricSignature # Null
  /\ biometricSignature' = Null
  /\ terminalLogs' = dispatched(terminalLogs,
       <<>>)
  /\ UNCHANGED <<Setup, Vision, Conduit, currentStatus, isShieldActive, History,
                 auditIntervalId, handshake, incidents, Flags, Store>>

\* mutant: the missing-signature check is left out
toggleSentinelShield_ungated ==
  /\ variant = "v6"
  /\ isShieldActive' = ~isShieldActive
  /\ disarmed' = isShieldActive
  /\ currentStatus' = IF isShieldActive' THEN "MONITORING" ELSE "IDLE"
  /\ auditIntervalId' = auditIntervalEffect(isShieldActive')
  /\ terminalLogs' = dispatched(terminalLogs,
       <<IF isShieldActive'
         THEN Event("SHIELD_ENGAGED: Perimeter audit active.", "system")
         ELSE Event("SHIELD_RECALLED: Monitoring standby.", "med")>>)
  /\ UNCHANGED <<Setup, Vision, chatPending, biometricSignature, securityLevel, handshake,
                 incidents, Flags, Store>>
  /\ neuralConduit' = said(neuralConduit,
       IF biometricSignature = Null THEN <<>>
       ELSE IF isShieldActive'
       THEN <<Message("ai", "Sentinel Dispatch active.")>>
       ELSE <<Message("ai", "Sentinel recalling. Terminal guard offline.")>>)

toggleSentinelShield ==
  /\ variant = "v6"
  /\ IF biometricSignature = Null
     THEN /\ currentStatus' = "ENROLLING"
          /\ UNCHANGED <<isShieldActive, disarmed>>
     ELSE LET nextShieldState == ~isShieldActive IN
          /\ isShieldActive' = nextShieldState
          /\ disarmed' = ~nextShieldState
          /\ currentStatus' = IF nextShieldState THEN "MONITORING" ELSE "IDLE"
  /\ auditIntervalId' = auditIntervalEffect(isShieldActive')
  /\ terminalLogs' = dispatched(terminalLogs,
       <<IF biometricSignature = Null
         THEN Event("Shield: Arming rejected. Missing master signature.", "high")
         ELSE IF isShieldActive'
         THEN Event("SHIELD_ENGAGED: Perimeter audit active.", "system")
         ELSE Event("SHIELD_RECALLED: Monitoring standby.", "med")>>)
  /\ UNCHANGED <<Setup, Vision, chatPending, biometricSignature, securityLevel, handshake,
                 incidents, Flags, Store>>
  /\ neuralConduit' = said(neuralConduit,
       IF biometricSignature = Null THEN <<>>
       ELSE IF isShieldActive'
       THEN <<Message("ai", "Sentinel Dispatch active.")>>
       ELSE <<Message("ai", "Sentinel recalling. Terminal guard offline.")>>)

handleVaultPurge ==
  /\ variant = "v6"
  /\ securityVault' = <<>>
  /\ terminalLogs' = dispatched(terminalLogs,
       <<Event("VAULT_PURGE: Data elimination sequence started.", "critical"),
         Event("VAULT_PURGE: Local buffer empty. Cloud purge in queue.", "system")>>)
  /\ UNCHANGED <<Setup, Vision, Conduit, currentStatus, biometricSignature, isShieldActive,
                 History, auditIntervalId, handshake, incidents, Flags,
                 remote>>


\* ----------------------------------------------- v6.0 audit and workflow
\* the detection that a tick would start: the next unused one
NextIncident == Cardinality(Used) + 1

\* mutant: the audit guard ignores the busy flag
auditAllowed6_reentrant ==
  currentStatus = "MONITORING" /\ biometricSignature # Null

\* negation of the early return of executeNeuralAudit
auditAllowed6 ==
  currentStatus = "MONITORING" /\ biometricSignature # Null /\ ~isAiProcessing

\* mutant: the workflow ends without setting the re-arm timer
settled_noRearm(inc) == [inc EXCEPT !.pc = "done"]

\* catch/finally of the workflow, then the re-arm setTimeout
settled(inc) == [inc EXCEPT !.pc = "done", !.rearm = "pending"]

\* history: step was issued / step failed
issue(inc, step) == [inc EXCEPT !.tried = @ \cup {step}]
fail(inc, step) == [inc EXCEPT !.failed = @ \cup {step}]

\* mutant: the upload is issued as soon as the recorder starts
recording_uploads(inc) ==
  [inc EXCEPT !.stream = "live", !.recorder = "recording", !.recTimer = TRUE,
              !.tried = @ \cup {"upload"}]

\* the stream is granted and the recorder starts: duration timer armed
recording(inc) ==
  [inc EXCEPT !.stream = "live", !.recorder = "recording", !.recTimer = TRUE]

\* mutant: a detection leaves the armed flag set
executeNeuralAudit_armed(frameData, isThreatDetected) ==
  /\ variant = "v6" /\ auditIntervalId
  /\ isThreatDetected => NextIncident <= MaxIncidents
  /\ IF auditAllowed6 /\ frameData # Null /\ isThreatDetected
     THEN /\ currentStatus' = "ALERT"
          /\ isAiProcessing' = TRUE
          /\ incidents' = [incidents EXCEPT ![NextIncident] =
                             [NoIncident EXCEPT !.pc = "classify",
                                                !.tried = {"classify"},
                                                !.threat = "High"]]
     ELSE /\ UNCHANGED <<currentStatus, isAiProcessing, incidents>>
  /\ UNCHANGED <<isShieldActive, auditIntervalId, terminalLogs>>
  /\ UNCHANGED <<Setup, Vision, Conduit, biometricSignature, History,
                 handshake, isProcessingNeuralAudit, Store>>

\* a tick of the audit interval
executeNeuralAudit(frameData, isThreatDetected) ==
  /\ variant = "v6" /\ auditIntervalId
  /\ isThreatDetected => NextIncident <= MaxIncidents
  /\ IF auditAllowed6 /\ frameData # Null /\ isThreatDetected
     THEN /\ currentStatus' = "ALERT"
          /\ isShieldActive' = FALSE
          /\ isAiProcessing' = TRUE
          /\ incidents' = [incidents EXCEPT ![NextIncident] =
                             [NoIncident EXCEPT !.pc = "classify",
                                                !.tried = {"classify"},
                                                !.threat = "High"]]
     ELSE /\ UNCHANGED <<currentStatus, isShieldActive, isAiProcessing,
                         incidents>>
  /\ auditIntervalId' = auditIntervalEffect(isShieldActive')
  /\ terminalLogs' = dispatched(terminalLogs,
       IF ~auditAllowed6 THEN <<>>
       ELSE IF frameData # Null /\ isThreatDetected
       THEN <<Event("Neural: Running Optical Audit...", "low"),
              Event("THREAT_DETECTED: UNAUTHORIZED ENTITY IDENTIFIED!", "critical")>>
       ELSE <<Event("Neural: Running Optical Audit...", "low")>>)
  /\ UNCHANGED <<Setup, Vision, Conduit, biometricSignature, History, handshake,
                 isProcessingNeuralAudit, Store>>

\* await analyzeIntrusion(frameData) resolves; Null stands for a rejection
executeNeuralAudit_analyze(w, forensics) ==
  /\ variant = "v6" /\ incidents[w].pc = "classify"
  /\ IF forensics # Null
     THEN /\ incidents' = [incidents EXCEPT ![w] =
               issue([@ EXCEPT !.pc = "persist", !.analysis = forensics],
                     "persist")]
          /\ UNCHANGED isAiProcessing
     ELSE /\ incidents' = [incidents EXCEPT ![w] =
                             settled(fail(@, "classify"))]
          /\ isAiProcessing' = FALSE
  /\ terminalLogs' = dispatched(terminalLogs,
       IF forensics # Null THEN <<>>
       ELSE <<Event("Shield Fault", "error")>>)
  /\ UNCHANGED <<Setup, Vision, Conduit, currentStatus, biometricSignature, isShieldActive,
                 History, auditIntervalId, handshake,
                 isProcessingNeuralAudit, Store>>

\* await supabase...insert([...]).select() resolves
executeNeuralAudit_insert(w, error) ==
  /\ variant = "v6" /\ incidents[w].pc = "persist"
  /\ IF error
     THEN /\ incidents' = [incidents EXCEPT ![w] =
                             settled(fail(@, "persist"))]
          /\ isAiProcessing' = FALSE
          /\ UNCHANGED Store
     ELSE LET alertRecordId == Len(remote) + 1 IN
          /\ remote' = insertRow(remote, incidents[w].analysis, "High")
          /\ securityVault' =
               <<SecurityLog(alertRecordId, incidents[w].analysis, "High",
                             "Detected", Null, w)>> \o securityVault
          /\ incidents' = [incidents EXCEPT ![w] =
               issue([@ EXCEPT !.pc = "acquire", !.rowId = alertRecordId,
                               !.records = @ + 1],
                     "evidence")]
          /\ UNCHANGED isAiProcessing
  /\ terminalLogs' = dispatched(terminalLogs,
       IF error THEN <<Event("Shield Fault", "error")>>
       ELSE <<Event("Intelligence: Analysis complete. Starting record collection.", "high"),
              Event("Engagement: Triggering Stealth Evidence Engine...", "high")>>)
  /\ UNCHANGED <<Setup, Vision, chatPending, currentStatus, biometricSignature, isShieldActive,
                 History, auditIntervalId, handshake,
                 isProcessingNeuralAudit>>
  /\ neuralConduit' = said(neuralConduit,
       IF error THEN <<>>
       ELSE <<Message("ai", "SECURITY BREACH DETECTED: forensics")>>)

\* mutant: a denied screen capture starts the recorder all the same
launchStealthEvidenceEngine_deniedRecords(w, outcome) ==
  /\ variant = "v6" /\ incidents[w].pc = "acquire"
  /\ incidents' = [incidents EXCEPT ![w] =
       CASE outcome = "unsupported" ->
              settled(fail([@ EXCEPT !.stream = "live"], "evidence"))
         [] OTHER -> settled(recording(@))]
  /\ isAiProcessing' = FALSE
  /\ terminalLogs' = dispatched(terminalLogs,
       <<Event("Stealth: Monitoring intruder behavior patterns...", "med")>>)
  /\ UNCHANGED <<Build, Vision, Conduit, currentStatus,
                 biometricSignature, isShieldActive, History, auditIntervalId,
                 handshake, isProcessingNeuralAudit, Store>>
  /\ dataChunksRef' = IF outcome = "unsupported" THEN dataChunksRef ELSE <<>>

\* await getDisplayMedia() resolves: "denied" (rejection), "unsupported"
\* (new MediaRecorder throws) or "granted"; the workflow then settles
launchStealthEvidenceEngine(w, outcome) ==
  /\ variant = "v6" /\ incidents[w].pc = "acquire"
  /\ incidents' = [incidents EXCEPT ![w] =
       CASE outcome = "denied" -> settled(fail(@, "evidence"))
         [] outcome = "unsupported" ->
              settled(fail([@ EXCEPT !.stream = "live"], "evidence"))
         [] OTHER -> settled(recording(@))]
  /\ isAiProcessing' = FALSE
  /\ terminalLogs' = dispatched(terminalLogs,
       IF outcome = "granted"
       THEN <<Event("Stealth: Monitoring intruder behavior patterns...", "med")>>
       ELSE <<Event("Stealth Fault: User denied recording permissions.", "error")>>)
  /\ UNCHANGED <<Build, Vision, Conduit, currentStatus, biometricSignature, isShieldActive,
                 History, auditIntervalId, handshake,
                 isProcessingNeuralAudit, Store>>
  /\ dataChunksRef' = IF outcome = "granted" THEN <<>> ELSE dataChunksRef

\* the recording duration timer fires; recorder.stop() runs onstop up to the
\* upload
recordingTimer6(w) ==
  /\ variant = "v6" /\ incidents[w].recTimer
  /\ incidents' = [incidents EXCEPT ![w] =
       IF @.recorder = "recording"
       THEN issue([@ EXCEPT !.recTimer = FALSE, !.recorder = "upload"],
                  "upload")
       ELSE [@ EXCEPT !.recTimer = FALSE]]
  /\ terminalLogs' = dispatched(terminalLogs,
       IF incidents[w].recorder = "recording"
       THEN <<Event("Vault: Encoding activity stream for archival...", "system")>>
       ELSE <<>>)
  /\ UNCHANGED <<Build, Vision, Conduit, currentStatus, biometricSignature, isShieldActive,
                 History, auditIntervalId, handshake, Flags, Store>>
  /\ dataChunksRef' =
       IF incidents[w].recorder = "recording" /\ chunkSize > 0
       THEN Append(dataChunksRef, w) ELSE dataChunksRef

\* await uploadVideoToVault(...) resolves
onstop_upload6(w, vaultUrl) ==
  /\ variant = "v6" /\ incidents[w].recorder = "upload"
  /\ incidents' = [incidents EXCEPT ![w] =
       IF vaultUrl # Null
       THEN issue([@ EXCEPT !.recorder = "update", !.url = vaultUrl], "update")
       ELSE fail([@ EXCEPT !.recorder = "finished", !.stream = "stopped"],
                 "upload")]
  /\ terminalLogs' = dispatched(terminalLogs,
       IF vaultUrl # Null THEN <<>>
       ELSE <<Event("Critical: Storage Node Connection Refused.", "critical")>>)
  /\ UNCHANGED <<Setup, Vision, Conduit, currentStatus, biometricSignature, isShieldActive,
                 History, auditIntervalId, handshake, Flags, Store>>

\* await supabase...update({screen_recording_url}).match({id}) resolves
onstop_update6(w, error) ==
  /\ variant = "v6" /\ incidents[w].recorder = "update"
  /\ IF error
     THEN UNCHANGED Store
     ELSE /\ remote' = updateRow(remote, incidents[w].rowId, incidents[w].url)
          /\ securityVault' =
               hotUpdate(securityVault, incidents[w].rowId, incidents[w].url)
  /\ incidents' = [incidents EXCEPT ![w] =
       LET done == [@ EXCEPT !.recorder = "finished", !.stream = "stopped"]
       IN  IF error THEN fail(done, "update") ELSE done]
  /\ terminalLogs' = dispatched(terminalLogs,
       IF error THEN <<>>
       ELSE <<Event("Vault: Evidence package permanently committed.", "system")>>)
  /\ UNCHANGED <<Setup, Vision, Conduit, currentStatus, biometricSignature, isShieldActive,
                 History, auditIntervalId, handshake, Flags>>

\* mutant: the re-arm sets the mode and leaves the armed flag as it is
rearm6_modeOnly(w) ==
  /\ variant = "v6" /\ incidents[w].rearm = "pending" /\ ~incidents[w].recTimer
  /\ currentStatus' = "MONITORING"
  /\ UNCHANGED <<isShieldActive, auditIntervalId>>
  /\ incidents' = [incidents EXCEPT ![w].rearm = "fired"]
  /\ terminalLogs' = dispatched(terminalLogs,
       <<Event("Protocol: Sentinel shield restored. Surveillance active.", "system")>>)
  /\ UNCHANGED <<Setup, Vision, Conduit, biometricSignature, History, handshake, Flags,
                 Store>>

\* the re-arm setTimeout fires.  It was set after the recording timer and
\* with a longer delay, so it fires after it.
rearm6(w) ==
  /\ variant = "v6" /\ incidents[w].rearm = "pending" /\ ~incidents[w].recTimer
  /\ currentStatus' = "MONITORING"
  /\ isShieldActive' = TRUE
  /\ auditIntervalId' = auditIntervalEffect(isShieldActive')
  /\ incidents' = [incidents EXCEPT ![w].rearm = "fired"]
  /\ terminalLogs' = dispatched(terminalLogs,
       <<Event("Protocol: Sentinel shield restored. Surveillance active.", "system")>>)
  /\ UNCHANGED <<Setup, Vision, Conduit, biometricSignature, History, handshake, Flags,
                 Store>>


\* ------------------------------------------------------------- v6.0 chat
\* the chat form is submitted; inputBuffer.trim() is empty for Null
handleNeuralConduitSubmit(inputBuffer) ==
  /\ variant = "v6"
  /\ IF trim(inputBuffer) = "" \/ isAiProcessing
     THEN /\ terminalLogs' = dispatched(terminalLogs,
               <<Event("Chat: Input buffer empty or conduit busy.", "low")>>)
          /\ UNCHANGED <<isAiProcessing, chatPending, neuralConduit>>
     ELSE /\ chatPending < MaxChats
          /\ neuralConduit' =
               said(neuralConduit, <<Message("user", inputBuffer)>>)
          /\ isAiProcessing' = TRUE
          /\ chatPending' = chatPending + 1
          /\ terminalLogs' = dispatched(terminalLogs,
               <<Event("Neural: Outbound query encrypted and dispatched.", "system")>>)
  /\ UNCHANGED <<Setup, Vision, currentStatus, biometricSignature,
                 isShieldActive, History, auditIntervalId, handshake,
                 incidents, isProcessingNeuralAudit, Store>>

\* await securityChat(...) resolves; Null stands for a rejection
handleNeuralConduitSubmit_reply(aiResponse) ==
  /\ variant = "v6" /\ chatPending > 0
  /\ chatPending' = chatPending - 1
  /\ neuralConduit' = said(neuralConduit,
       <<Message("ai",
           IF aiResponse = Null
           THEN "FAULT_IDENTIFIED: Unable to reach Sentinel Intelligence Core."
           ELSE IF aiResponse = ""
           THEN "CORE_TIMEOUT: No intelligence returned."
           ELSE aiResponse)>>)
  /\ isAiProcessing' = FALSE
  /\ terminalLogs' = dispatched(terminalLogs,
       IF aiResponse # Null
       THEN <<Event("Neural: Inbound response decrypted.", "system")>>
       ELSE <<Event("Neural Link Error: Secure tunnel collapsed.", "critical")>>)
  /\ UNCHANGED <<Setup, Vision, currentStatus, biometricSignature,
                 isShieldActive, History, auditIntervalId, handshake,
                 incidents, isProcessingNeuralAudit, Store>>

\* the Clear button of the console
clearTerminalLogs ==
  /\ variant = "v6"
  /\ terminalLogs' = <<>>
  /\ UNCHANGED <<Setup, Vision, Conduit, currentStatus,
                 biometricSignature, isShieldActive, History, auditIntervalId,
                 handshake, incidents, Flags, Store>>


\* ======================================================== v4.0 handlers
\* await checkDatabaseConnection() resolves
bootstrapVault_health(success) ==
  /\ variant = "v4" /\ handshake = "health"
  /\ handshake' = IF success THEN "query" ELSE "done"
  /\ terminalLogs' = dispatched(terminalLogs,
       IF success THEN <<>>
       ELSE <<Event("Vault Sync Error", "critical")>>)
  /\ UNCHANGED <<Setup, Vision, Conduit, currentStatus, biometricSignature, isShieldActive,
                 History, auditIntervalId, incidents, Flags, Store>>

\* await supabase.from('security_logs').select('*')... resolves
bootstrapVault_query(error) ==
  /\ variant = "v4" /\ handshake = "query"
  /\ handshake' = "done"
  /\ IF error
     THEN UNCHANGED securityVault
     ELSE securityVault' = mappedRecords(Reverse(remote))
  /\ terminalLogs' = dispatched(terminalLogs,
       IF error THEN <<Event("Vault Sync Error", "critical")>>
       ELSE <<Event("Sync Complete", "success")>>)
  /\ UNCHANGED <<Setup, Vision, Conduit, currentStatus, biometricSignature, isShieldActive,
                 History, auditIntervalId, incidents, Flags, remote>>

\* await navigator.mediaDevices.getUserMedia() of the startup effect resolves
activateVision(granted) ==
  /\ variant = "v4" /\ sensorBoot
  /\ sensorBoot' = FALSE
  /\ visionNode' = IF granted THEN "OPTIMAL" ELSE "OFFLINE"
  /\ terminalLogs' = dispatched(terminalLogs,
       IF granted
       THEN <<Event("Vision sensor online. Resolution: 1080p Full-HD.", "success")>>
       ELSE <<Event("Vision Hardware Fault", "critical")>>)
  /\ UNCHANGED <<Setup, chatPending, currentStatus, biometricSignature,
                 isShieldActive, History, auditIntervalId, handshake,
                 incidents, Flags, Store>>
  /\ neuralConduit' = said(neuralConduit,
       IF granted THEN <<>>
       ELSE <<Message("ai", "SYSTEM_ERROR: Camera access denied.")>>)

\* the Initialize Mapping button, rendered while no signature is enrolled
handleBiometricEnrollment4(snapshot) ==
  /\ variant = "v4" /\ biometricSignature = Null
  /\ IF snapshot # Null
     THEN /\ biometricSignature' = snapshot
          /\ currentStatus' = "MONITORING"
          /\ isShieldActive' = TRUE
          /\ disarmed' = FALSE
     ELSE UNCHANGED <<biometricSignature, currentStatus, isShieldActive,
                      disarmed>>
  /\ auditIntervalId' = auditIntervalEffect(isShieldActive')
  /\ terminalLogs' = dispatched(terminalLogs,
       <<Event("Initializing Neural Mapping sequence...", "warn"),
         IF snapshot # Null
         THEN Event("Biometric signature hashed and locked in Volatile Memory.", "success")
         ELSE Event("Enrollment Failed: Visual sensor returned null data.", "error")>>)
  /\ UNCHANGED <<Setup, Vision, chatPending, securityLevel, handshake, incidents, Flags, Store>>
  /\ neuralConduit' = said(neuralConduit,
       IF snapshot = Null THEN <<>>
       ELSE <<Message("ai", "Neural signature established.")>>)

\* the Purge Signature button, rendered while a signature is enrolled
purgeSignature ==
  /\ variant = "v4" /\ biometricSignature # Null
  /\ biometricSignature' = Null
  /\ terminalLogs' = dispatched(terminalLogs,
       <<>>)
  /\ UNCHANGED <<Setup, Vision, Conduit, currentStatus, isShieldActive, History,
                 auditIntervalId, handshake, incidents, Flags, Store>>

toggleArmingSystem ==
  /\ variant = "v4"
  /\ IF biometricSignature = Null
     THEN /\ currentStatus' = "ENROLLING"
          /\ UNCHANGED <<isShieldActive, disarmed>>
     ELSE LET targetState == ~isShieldActive IN
          /\ isShieldActive' = targetState
          /\ disarmed' = ~targetState
          /\ currentStatus' = IF targetState THEN "MONITORING" ELSE "IDLE"
  /\ auditIntervalId' = auditIntervalEffect(isShieldActive')
  /\ terminalLogs' = dispatched(terminalLogs,
       <<IF biometricSignature = Null
         THEN Event("Arming blocked: No biometric signature found.", "warn")
         ELSE IF isShieldActive'
         THEN Event("SYSTEM_ARMED: Sentinel shield is now online.", "success")
         ELSE Event("SYSTEM_DISARMED: Standing down.", "warn")>>)
  /\ UNCHANGED <<Setup, Vision, chatPending, biometricSignature, securityLevel, handshake,
                 incidents, Flags, Store>>
  /\ neuralConduit' = said(neuralConduit,
       IF biometricSignature = Null THEN <<>>
       ELSE IF isShieldActive'
       THEN <<Message("ai", "Protection protocols ENGAGED.")>>
       ELSE <<Message("ai", "Sentinel Disarmed. Shield offline.")>>)

purgeLogs ==
  /\ variant = "v4"
  /\ securityVault' = <<>>
  /\ terminalLogs' = dispatched(terminalLogs,
       <<Event("Initiating global log purge protocol...", "warn"),
         Event("Local vault cache cleared. Cloud data purge in queue.", "info")>>)
  /\ UNCHANGED <<Setup, Vision, Conduit, currentStatus, biometricSignature, isShieldActive,
                 History, auditIntervalId, handshake, incidents, Flags,
                 remote>>

\* ----------------------------------------------- v4.0 audit and workflow
\* mutant: the audit guard does not read the owner's signature
auditAllowed4_unenrolled ==
  /\ currentStatus = "MONITORING"
  /\ ~isProcessingNeuralAudit

\* negation of the early return of runSecurityAudit
auditAllowed4 ==
  /\ currentStatus = "MONITORING" /\ biometricSignature # Null
  /\ ~isProcessingNeuralAudit

\* const tempId = Date.now().toString()
tempId(w) == TempIdBase + w

\* threatLevel of initialLog
initialThreat == IF securityLevel = "MAXIMUM" THEN "High" ELSE "Medium"

\* mutant: a failed frame capture returns with the audit flag still set
runSecurityAudit_stuck(currentFrame, isIntruderDetected) ==
  /\ variant = "v4" /\ auditIntervalId
  /\ isIntruderDetected => NextIncident <= MaxIncidents
  /\ IF auditAllowed4 /\ currentFrame # Null /\ isIntruderDetected
     THEN /\ currentStatus' = "ALERT"
          /\ isShieldActive' = FALSE
          /\ securityVault' =
               <<SecurityLog(tempId(NextIncident), Null, initialThreat,
                             "Detected", Null, NextIncident)>>
               \o securityVault
          /\ isAiProcessing' = TRUE
          /\ isProcessingNeuralAudit' = TRUE
          /\ incidents' = [incidents EXCEPT ![NextIncident] =
                             [NoIncident EXCEPT !.pc = "classify",
                                                !.tried = {"classify"},
                                                !.threat = initialThreat,
                                                !.records = 1]]
     ELSE /\ isProcessingNeuralAudit' =
               (isProcessingNeuralAudit \/ (auditAllowed4 /\ currentFrame = Null))
          /\ UNCHANGED <<currentStatus, isShieldActive, securityVault,
                         isAiProcessing, incidents>>
  /\ auditIntervalId' = auditIntervalEffect(isShieldActive')
  /\ terminalLogs' = dispatched(terminalLogs,
       IF auditAllowed4 /\ currentFrame # Null /\ isIntruderDetected
       THEN <<Event("THREAT_DETECTED: UNAUTHORIZED USER IN OPTICAL FIELD!", "critical"),
              Event("Engaging Gemini Neural Core for visual behavior analysis...", "info")>>
       ELSE <<>>)
  /\ UNCHANGED <<Setup, Vision, Conduit, biometricSignature, History, handshake, remote>>

\* a tick of the audit interval
runSecurityAudit(currentFrame, isIntruderDetected) ==
  /\ variant = "v4" /\ auditIntervalId
  /\ isIntruderDetected => NextIncident <= MaxIncidents
  /\ IF auditAllowed4 /\ currentFrame # Null /\ isIntruderDetected
     THEN /\ currentStatus' = "ALERT"
          /\ isShieldActive' = FALSE
          /\ securityVault' =
               <<SecurityLog(tempId(NextIncident), Null, initialThreat,
                             "Detected", Null, NextIncident)>>
               \o securityVault
          /\ isAiProcessing' = TRUE
          /\ isProcessingNeuralAudit' = TRUE
          /\ incidents' = [incidents EXCEPT ![NextIncident] =
                             [NoIncident EXCEPT !.pc = "classify",
                                                !.tried = {"classify"},
                                                !.threat = initialThreat,
                                                !.records = 1]]
     ELSE /\ UNCHANGED <<currentStatus, isShieldActive, securityVault,
                         isAiProcessing, isProcessingNeuralAudit, incidents>>
  /\ auditIntervalId' = auditIntervalEffect(isShieldActive')
  /\ terminalLogs' = dispatched(terminalLogs,
       IF auditAllowed4 /\ currentFrame # Null /\ isIntruderDetected
       THEN <<Event("THREAT_DETECTED: UNAUTHORIZED USER IN OPTICAL FIELD!", "critical"),
              Event("Engaging Gemini Neural Core for visual behavior analysis...", "info")>>
       ELSE <<>>)
  /\ UNCHANGED <<Setup, Vision, Conduit, biometricSignature, History, handshake, remote>>

\* await analyzeIntrusion(intruderImg) resolves; Null stands for a rejection
runSecurityAudit_analyze(w, aiAnalysis) ==
  /\ variant = "v4" /\ incidents[w].pc = "classify"
  /\ IF aiAnalysis # Null
     THEN /\ incidents' = [incidents EXCEPT ![w] =
               issue([@ EXCEPT !.pc = "persist", !.analysis = aiAnalysis],
                     "persist")]
          /\ UNCHANGED Flags
     ELSE /\ incidents' = [incidents EXCEPT ![w] =
                             settled(fail(@, "classify"))]
          /\ isAiProcessing' = FALSE
          /\ isProcessingNeuralAudit' = FALSE
  /\ terminalLogs' = dispatched(terminalLogs,
       IF aiAnalysis # Null THEN <<>>
       ELSE <<Event("Security Workflow Breach", "error")>>)
  /\ UNCHANGED <<Setup, Vision, Conduit, currentStatus, biometricSignature, isShieldActive,
                 History, auditIntervalId, handshake, Store>>

\* await supabase...insert([...]).select() resolves
runSecurityAudit_insert(w, error) ==
  /\ variant = "v4" /\ incidents[w].pc = "persist"
  /\ IF error
     THEN /\ incidents' = [incidents EXCEPT ![w] =
                             settled(fail(@, "persist"))]
          /\ isAiProcessing' = FALSE
          /\ isProcessingNeuralAudit' = FALSE
          /\ UNCHANGED Store
     ELSE LET dbRecordId == Len(remote) + 1 IN
          /\ remote' = insertRow(remote, incidents[w].analysis,
                                 incidents[w].threat)
          /\ securityVault' = reconcile(securityVault, tempId(w), dbRecordId,
                                        incidents[w].analysis)
          /\ incidents' = [incidents EXCEPT ![w] =
               issue([@ EXCEPT !.pc = "acquire", !.rowId = dbRecordId],
                     "evidence")]
          /\ UNCHANGED Flags
  /\ terminalLogs' = dispatched(terminalLogs,
       IF error THEN <<Event("Security Workflow Breach", "error")>>
       ELSE <<Event("AI Analysis complete. Intrusion identity categorized.", "success"),
              Event("TRIGGER: Evidence Gathering Engine active.", "warn")>>)
  /\ UNCHANGED <<Setup, Vision, chatPending, currentStatus, biometricSignature, isShieldActive,
                 History, auditIntervalId, handshake>>
  /\ neuralConduit' = said(neuralConduit,
       IF error THEN <<>>
       ELSE <<Message("ai", "SECURITY ALERT: forensics")>>)

\* await getDisplayMedia() resolves; the workflow then settles
executeStealthRecording(w, outcome) ==
  /\ variant = "v4" /\ incidents[w].pc = "acquire"
  /\ incidents' = [incidents EXCEPT ![w] =
       CASE outcome = "denied" -> settled(fail(@, "evidence"))
         [] outcome = "unsupported" ->
              settled(fail([@ EXCEPT !.stream = "live"], "evidence"))
         [] OTHER -> settled(recording(@))]
  /\ isAiProcessing' = FALSE
  /\ isProcessingNeuralAudit' = FALSE
  /\ terminalLogs' = dispatched(terminalLogs,
       IF outcome = "granted"
       THEN <<Event("Stealth stream active. Monitoring intruder interaction...", "info")>>
       ELSE <<Event("Stealth Capture Aborted", "error")>>)
  /\ UNCHANGED <<Build, Vision, Conduit, currentStatus, biometricSignature, isShieldActive,
                 History, auditIntervalId, handshake, Store>>
  /\ dataChunksRef' = IF outcome = "granted" THEN <<>> ELSE dataChunksRef

\* the recording duration timer fires
recordingTimer4(w) ==
  /\ variant = "v4" /\ incidents[w].recTimer
  /\ incidents' = [incidents EXCEPT ![w] =
       IF @.recorder = "recording"
       THEN issue([@ EXCEPT !.recTimer = FALSE, !.recorder = "upload"],
                  "upload")
       ELSE [@ EXCEPT !.recTimer = FALSE]]
  /\ terminalLogs' = dispatched(terminalLogs,
       IF incidents[w].recorder = "recording"
       THEN <<Event("Encoding activity stream for Cloud Vault upload...", "info")>>
       ELSE <<>>)
  /\ UNCHANGED <<Build, Vision, Conduit, currentStatus, biometricSignature, isShieldActive,
                 History, auditIntervalId, handshake, Flags, Store>>
  /\ dataChunksRef' =
       IF incidents[w].recorder = "recording" /\ chunkSize > 0
       THEN Append(dataChunksRef, w) ELSE dataChunksRef

\* await uploadVideoToVault(...) resolves
onstop_upload4(w, publicUrl) ==
  /\ variant = "v4" /\ incidents[w].recorder = "upload"
  /\ incidents' = [incidents EXCEPT ![w] =
       IF publicUrl # Null
       THEN issue([@ EXCEPT !.recorder = "update", !.url = publicUrl], "update")
       ELSE fail([@ EXCEPT !.recorder = "finished", !.stream = "stopped"],
                 "upload")]
  /\ terminalLogs' = dispatched(terminalLogs,
       IF publicUrl # Null THEN <<>>
       ELSE <<Event("Cloud Upload Fault: Storage node rejected the packet.", "critical")>>)
  /\ UNCHANGED <<Setup, Vision, Conduit, currentStatus, biometricSignature, isShieldActive,
                 History, auditIntervalId, handshake, Flags, Store>>

\* await supabase...update({screen_recording_url}).match({id}) resolves
onstop_update4(w, error) ==
  /\ variant = "v4" /\ incidents[w].recorder = "update"
  /\ IF error
     THEN UNCHANGED Store
     ELSE /\ remote' = updateRow(remote, incidents[w].rowId, incidents[w].url)
          /\ securityVault' =
               hotUpdate(securityVault, incidents[w].rowId, incidents[w].url)
  /\ incidents' = [incidents EXCEPT ![w] =
       LET done == [@ EXCEPT !.recorder = "finished", !.stream = "stopped"]
       IN  IF error THEN fail(done, "update") ELSE done]
  /\ terminalLogs' = dispatched(terminalLogs,
       IF error THEN <<Event("DB Update Failed", "error")>>
       ELSE <<Event("Evidence package successfully archived in Cloud Vault.", "success")>>)
  /\ UNCHANGED <<Setup, Vision, Conduit, currentStatus, biometricSignature, isShieldActive,
                 History, auditIntervalId, handshake, Flags>>

\* the cooldown setTimeout fires, after the recording timer set before it
rearm4(w) ==
  /\ variant = "v4" /\ incidents[w].rearm = "pending" /\ ~incidents[w].recTimer
  /\ currentStatus' = "MONITORING"
  /\ isShieldActive' = TRUE
  /\ auditIntervalId' = auditIntervalEffect(isShieldActive')
  /\ incidents' = [incidents EXCEPT ![w].rearm = "fired"]
  /\ terminalLogs' = dispatched(terminalLogs,
       <<Event("Alert cooldown expired. Re-arming Sentinel shield.", "info")>>)
  /\ UNCHANGED <<Setup, Vision, Conduit, biometricSignature, History, handshake, Flags,
                 Store>>

\* ------------------------------------------------------------- v4.0 chat
\* the chat form is submitted; chatInput.trim() is empty for Null
handleChatInterface(chatInput) ==
  /\ variant = "v4"
  /\ IF trim(chatInput) = "" \/ isAiProcessing
     THEN UNCHANGED <<isAiProcessing, chatPending, terminalLogs,
                      neuralConduit>>
     ELSE /\ chatPending < MaxChats
          /\ neuralConduit' =
               said(neuralConduit, <<Message("user", chatInput)>>)
          /\ isAiProcessing' = TRUE
          /\ chatPending' = chatPending + 1
          /\ terminalLogs' = dispatched(terminalLogs,
               <<Event("Routing encrypted query to AI Neural Link...", "info")>>)
  /\ UNCHANGED <<Setup, Vision, currentStatus, biometricSignature,
                 isShieldActive, History, auditIntervalId, handshake,
                 incidents, isProcessingNeuralAudit, Store>>

\* mutant: a failed chat call adds no message to the conversation
handleChatInterface_reply_silent(response) ==
  /\ variant = "v4" /\ chatPending > 0
  /\ chatPending' = chatPending - 1
  /\ neuralConduit' = said(neuralConduit,
       IF response = Null THEN <<>>
       ELSE <<Message("ai",
                IF response = "" THEN "AI_CORE_TIMEOUT: No response."
                ELSE response)>>)
  /\ isAiProcessing' = FALSE
  /\ terminalLogs' = dispatched(terminalLogs,
       IF response # Null THEN <<>>
       ELSE <<Event("Neural Link disrupted: Handshake failed.", "error")>>)
  /\ UNCHANGED <<Setup, Vision, currentStatus, biometricSignature,
                 isShieldActive, History, auditIntervalId, handshake,
                 incidents, isProcessingNeuralAudit, Store>>

\* await securityChat(...) resolves; Null stands for a rejection
handleChatInterface_reply(response) ==
  /\ variant = "v4" /\ chatPending > 0
  /\ chatPending' = chatPending - 1
  /\ neuralConduit' = said(neuralConduit,
       <<Message("ai",
           IF response = Null
           THEN "ERROR: Secure AI link disrupted. Check network integrity."
           ELSE IF response = ""
           THEN "AI_CORE_TIMEOUT: No response."
           ELSE response)>>)
  /\ isAiProcessing' = FALSE
  /\ terminalLogs' = dispatched(terminalLogs,
       IF response # Null THEN <<>>
       ELSE <<Event("Neural Link disrupted: Handshake failed.", "error")>>)
  /\ UNCHANGED <<Setup, Vision, currentStatus, biometricSignature,
                 isShieldActive, History, auditIntervalId, handshake,
                 incidents, isProcessingNeuralAudit, Store>>

\* the Clear button of the console
clearSystemLogs ==
  /\ variant = "v4"
  /\ terminalLogs' = <<>>
  /\ UNCHANGED <<Setup, Vision, Conduit, currentStatus,
                 biometricSignature, isShieldActive, History, auditIntervalId,
                 handshake, incidents, Flags, Store>>

\* ------------------------------------------------------- specification
Frames == {Null, "frame"}
Texts == {Null, Forensics}
Urls == {Null, VaultUrl}
Outcomes == {"denied", "unsupported", "granted"}
\* what the chat form is submitted with: nothing, blanks, a question
Submissions == {"", "  ", "status?"}
\* what securityChat() gives: a rejection (Null), an empty text, a text
Replies == Texts \cup {""}

\* steps the user takes
User ==
  \/ \E f \in Frames : handleBiometricEnrollment6(f)
  \/ purgeAuth
  \/ toggleSentinelShield
  \/ handleVaultPurge
  \/ \E f \in Frames : handleBiometricEnrollment4(f)
  \/ purgeSignature
  \/ toggleArmingSystem
  \/ purgeLogs

\* ticks of the audit interval
Tick ==
  \/ \E f \in Frames, d \in BOOLEAN : executeNeuralAudit(f, d)
  \/ \E f \in Frames, d \in BOOLEAN : runSecurityAudit(f, d)

\* completions of pending calls and one-shot timers of detection w
Completion(w) ==
  \/ \E t \in Texts : executeNeuralAudit_analyze(w, t)
  \/ \E e \in BOOLEAN : executeNeuralAudit_insert(w, e)
  \/ \E o \in Outcomes : launchStealthEvidenceEngine(w, o)
  \/ recordingTimer6(w)
  \/ \E u \in Urls : onstop_upload6(w, u)
  \/ \E e \in BOOLEAN : onstop_update6(w, e)
  \/ rearm6(w)
  \/ \E t \in Texts : runSecurityAudit_analyze(w, t)
  \/ \E e \in BOOLEAN : runSecurityAudit_insert(w, e)
  \/ \E o \in Outcomes : executeStealthRecording(w, o)
  \/ recordingTimer4(w)
  \/ \E u \in Urls : onstop_upload4(w, u)
  \/ \E e \in BOOLEAN : onstop_update4(w, e)
  \/ rearm4(w)

\* completions of the startup sync
Startup ==
  \/ \E ok \in BOOLEAN : initializeSentinel_health(ok)
  \/ \E e \in BOOLEAN : initializeSentinel_query(e)
  \/ \E ok \in BOOLEAN : bootstrapVault_health(ok)
  \/ \E e \in BOOLEAN : bootstrapVault_query(e)

\* completions of the startup camera request
Sensors ==
  \/ \E g \in BOOLEAN : bootOpticalSensors(g)
  \/ \E g \in BOOLEAN : activateVision(g)

Next == User \/ Tick \/ Startup \/ \E w \in Incidents : Completion(w)

Spec == Init /\ [][Next]_vars

\* submissions and completions of the chat
Chat ==
  \/ \E t \in Submissions : handleNeuralConduitSubmit(t)
  \/ \E t \in Replies : handleNeuralConduitSubmit_reply(t)
  \/ \E t \in Submissions : handleChatInterface(t)
  \/ \E t \in Replies : handleChatInterface_reply(t)

\* the user empties the console
Console == clearTerminalLogs \/ clearSystemLogs

\* the same steps with the event log observed
LogNext == Next \/ Console

LogSpec == LogInit /\ [][LogNext]_vars

\* the chat included
ChatNext == Next \/ Chat

ChatSpec == Init /\ [][ChatNext]_vars

\* the startup camera request included
BootNext == Next \/ Sensors

BootSpec == Init /\ [][BootNext]_vars

\* the user, the chat and the camera with the conversation observed
ConduitNext == User \/ Chat \/ Sensors

ConduitSpec == ConduitInit /\ [][ConduitNext]_vars

\* the recorded chunks observed
EvidenceSpec == EvidenceInit /\ [][Next]_vars

\* every pending call resolves and every one-shot timer fires
FairSpec ==
  Spec /\ WF_vars(Startup) /\ \A w \in Incidents : WF_vars(Completion(w))


\* ====================================================== service modules
App ==
  <<variant, currentStatus, biometricSignature, securityVault,
    isShieldActive, isAiProcessing, isProcessingNeuralAudit, securityLevel,
    auditIntervalId, handshake, remote, incidents, disarmed, terminalLogs,
    maxSystemLogs, visionNode, sensorBoot, chatPending, dataChunksRef,
    chunkSize, neuralConduit, conduitWindow>>

\* callWithRetry(fn, retries) is called: let lastError, i = 0
callWithRetry(fn, retries) ==
  /\ call.pc = "idle"
  /\ call' = [NoCall EXCEPT !.pc = "loop", !.fn = fn, !.retries = retries]
  /\ UNCHANGED <<App, environment, request>>

\* analyzeIntrusion(imageB64)
analyzeIntrusion == callWithRetry("generateContent", DefaultRetries)

\* securityChat(history, message)
securityChat == callWithRetry("sendMessage", DefaultRetries)

\* mutant: the loop runs while i <= retries
callWithRetry_loop_inclusive ==
  /\ call.pc = "loop"
  /\ IF call.i <= call.retries
     THEN \E apiKey \in getRandomKey :
            call' = [call EXCEPT !.pc = "attempt", !.apiKey = apiKey]
     ELSE call' = [call EXCEPT !.pc = "thrown", !.settled = call.lastError]
  /\ UNCHANGED <<App, environment, request>>

\* for (...; i < retries; ...): a key is drawn and fn(model) is invoked, or
\* the loop is left and lastError is thrown
callWithRetry_loop ==
  /\ call.pc = "loop"
  /\ IF call.i < call.retries
     THEN \E apiKey \in getRandomKey :
            call' = [call EXCEPT !.pc = "attempt", !.apiKey = apiKey]
     ELSE call' = [call EXCEPT !.pc = "thrown", !.settled = call.lastError]
  /\ UNCHANGED <<App, environment, request>>

\* mutant: every error is retried
callWithRetry_attempt_retriesAll(outcome) ==
  /\ call.pc = "attempt"
  /\ outcome.kind = "value" => call.apiKey # "MISSING_KEY"
  /\ IF outcome.kind = "value"
     THEN call' = [call EXCEPT !.pc = "returned", !.settled = outcome,
                               !.attempts = Append(@, outcome)]
     ELSE call' = [call EXCEPT !.pc = "loop", !.i = @ + 1,
                               !.lastError = outcome,
                               !.attempts = Append(@, outcome)]
  /\ UNCHANGED <<App, environment, request>>

\* await fn(model) settles: its value is returned, or the catch keeps the
\* error and continues the loop or rethrows; no request made with the
\* placeholder key is answered with a value
callWithRetry_attempt(outcome) ==
  /\ call.pc = "attempt"
  /\ outcome.kind = "value" => call.apiKey # "MISSING_KEY"
  /\ IF outcome.kind = "value"
     THEN call' = [call EXCEPT !.pc = "returned", !.settled = outcome,
                               !.attempts = Append(@, outcome)]
     ELSE IF retryable(outcome)
     THEN call' = [call EXCEPT !.pc = "loop", !.i = @ + 1,
                               !.lastError = outcome,
                               !.attempts = Append(@, outcome)]
     ELSE call' = [call EXCEPT !.pc = "thrown", !.settled = outcome,
                               !.lastError = outcome,
                               !.attempts = Append(@, outcome)]
  /\ UNCHANGED <<App, environment, request>>

\* checkDatabaseConnection(): answers at once without configuration,
\* otherwise sends the count query
checkDatabaseConnection ==
  /\ request.pc = "idle"
  /\ request' = IF ~isConfigValid
                THEN [op |-> "health", pc |-> "done", sent |-> FALSE,
                      success |-> FALSE]
                ELSE [op |-> "health", pc |-> "pending", sent |-> TRUE,
                      success |-> FALSE]
  /\ UNCHANGED <<App, environment, call>>

\* supabase.from('security_logs').insert/update: the client, made with the
\* placeholder URL and key when a credential is missing, sends the request
supabaseRequest(op) ==
  /\ request.pc = "idle"
  /\ request' = [op |-> op, pc |-> "pending", sent |-> TRUE,
                 success |-> FALSE]
  /\ UNCHANGED <<App, environment, call>>

\* the request is answered with data or with an error; the placeholder
\* project answers nothing
requestSettles(success) ==
  /\ request.pc = "pending"
  /\ success => isConfigValid
  /\ request' = [request EXCEPT !.pc = "done", !.success = success]
  /\ UNCHANGED <<App, environment, call>>

\* a build given any of the credentials, before any service is used
ServiceInit ==
  /\ Mount(0)
  /\ environment \in Environments
  /\ call = NoCall
  /\ request = NoRequest
  /\ chunkSize = 0
  /\ conduitWindow = 0

ServiceNext ==
  \/ analyzeIntrusion
  \/ securityChat
  \/ \E retries \in 0..MaxRetries : callWithRetry("operation", retries)
  \/ callWithRetry_loop
  \/ \E outcome \in Errors \cup {Value} : callWithRetry_attempt(outcome)
  \/ checkDatabaseConnection
  \/ \E op \in {"insert", "update"} : supabaseRequest(op)
  \/ \E success \in BOOLEAN : requestSettles(success)

ServiceSpec == ServiceInit /\ [][ServiceNext]_vars


\* ================================================================ claims
Vault == {securityVault[i] : i \in 1..Len(securityVault)}

\* detection w has happened and its re-arm timer has not fired yet
Active(w) == incidents[w].pc # "unused" /\ incidents[w].rearm # "fired"

\* a user toggle of the arm/disarm control
ToggleStep == toggleSentinelShield \/ toggleArmingSystem

\* C1: Always re-arms: whatever the outcome of classify, persist and
\* evidence gathering, a mode of Alert is followed by mode Monitoring with
\* the audit interval installed.
AlwaysRearms ==
  (currentStatus = "ALERT") ~> (currentStatus = "MONITORING" /\ auditIntervalId)

\* a workflow whose classify step failed has re-armed the monitor
RearmedAfterFailure ==
  \E w \in Incidents :
    /\ incidents[w].rearm = "fired" /\ "classify" \in incidents[w].failed
    /\ currentStatus = "MONITORING" /\ auditIntervalId

\* C2: At most one alert: at most one alert workflow is active (between its
\* detection and the firing of its re-arm timer) at any time.
AtMostOneAlert == Cardinality({w \in Incidents : Active(w)}) <= 1

\* C3: Alerts cannot be manually cancelled: a user toggle made while mode
\* is Alert leaves mode Alert and does not install the audit interval.
AlertNotCancellable ==
  [][(currentStatus = "ALERT" /\ ToggleStep)
       => (currentStatus' = "ALERT" /\ ~auditIntervalId')]_vars

\* C4: No orphaned timers: once the user has disarmed and mode is Idle, the
\* audit interval (without which no audit is invoked) is installed again
\* only by a step in which the user arms.
NoOrphanedTimers ==
  [][(disarmed /\ currentStatus = "IDLE" /\ ~auditIntervalId /\ auditIntervalId')
       => ~disarmed']_vars

\* C5: mode is Monitoring or Alert only if a signature is enrolled.
SignatureInvariant ==
  currentStatus \in {"MONITORING", "ALERT"} => biometricSignature # Null

\* C6: Enrollment gating: a toggle made while no signature is enrolled sets
\* mode to Enrolling (never Monitoring) and does not install the audit
\* interval.
EnrollmentGating ==
  [][(biometricSignature = Null /\ ToggleStep)
       => (currentStatus' = "ENROLLING"
           /\ (auditIntervalId' => auditIntervalId))]_vars

\* an arm request was blocked: Enrolling, nothing enrolled, no interval
ArmingBlocked ==
  currentStatus = "ENROLLING" /\ biometricSignature = Null /\ ~auditIntervalId

\* C7: Record integrity: every record of the local log with status Archived
\* has a non-null evidence URL.
RecordIntegrity ==
  \A r \in Vault : r.status = "Archived" => r.screenRecordingUrl # Null

\* C8: the re-arm timer is pending from the moment mode becomes Alert, while
\* classify, persist and screen acquisition are still in progress.
CooldownFromAlertEntry ==
  \A w \in Incidents :
    incidents[w].pc \in {"classify", "persist", "acquire"}
      => incidents[w].rearm = "pending"

\* C9: Classification is best-effort: a workflow whose analyze call failed
\* has still issued the persist step and the evidence step when it settles.
ClassifyBestEffort ==
  \A w \in Incidents :
    (incidents[w].pc = "done" /\ "classify" \in incidents[w].failed)
      => {"persist", "evidence"} \subseteq incidents[w].tried

\* C10: when the remote insert fails, the local log holds a record of that
\* detection (status Detected, no evidence URL) once the workflow settles.
IncidentNotLost ==
  \A w \in Incidents :
    (incidents[w].pc = "done" /\ "persist" \in incidents[w].failed)
      => \E r \in Vault : /\ r.origin = w
                          /\ r.status = "Detected"
                          /\ r.screenRecordingUrl = Null

\* the records of a log that detection w made
RecordsOf(log, w) == {log[i] : i \in {j \in 1..Len(log) : log[j].origin = w}}

\* the capture request of detection w is rejected
CaptureDenied(w) ==
  \/ launchStealthEvidenceEngine(w, "denied")
  \/ executeStealthRecording(w, "denied")

\* C11: when the screen-capture stream cannot be obtained, an error is
\* logged, no recorder is started and no upload is issued, the records of
\* the local log and of the remote table are left as they are (the
\* incident's record stays Detected without URL), and the re-arm timer is set.
EvidenceSkipped ==
  /\ [][\A w \in Incidents : CaptureDenied(w) =>
          /\ terminalLogs' # <<>> /\ Head(terminalLogs').severity = "error"
          /\ incidents'[w].recorder = "none" /\ ~incidents'[w].recTimer
          /\ UNCHANGED Store
          /\ incidents'[w].rearm = "pending"]_vars
  /\ [](\A w \in Incidents :
          ("evidence" \in incidents[w].failed /\ incidents[w].stream = "none")
            => /\ incidents[w].recorder = "none"
               /\ "upload" \notin incidents[w].tried
               /\ \A r \in RecordsOf(securityVault, w) :
                     r.status = "Detected" /\ r.screenRecordingUrl = Null)

\* a workflow whose capture request was rejected has re-armed, and its
\* record is in the local log
EvidenceDenied ==
  \E w \in Incidents :
    /\ "evidence" \in incidents[w].failed /\ incidents[w].stream = "none"
    /\ incidents[w].rearm = "fired"
    /\ RecordsOf(securityVault, w) # {}

\* the upload of detection w returns null
UploadFails(w) == onstop_upload6(w, Null) \/ onstop_upload4(w, Null)

\* C12: Archive outcome: once the upload of an incident has returned a URL
\* and the archive step is over, the incident's record has that URL and
\* status Archived; when the upload returns null an error is logged and the
\* record stays Detected without URL.
ArchiveOutcome ==
  /\ [](\A w \in Incidents :
          (incidents[w].recorder = "finished" /\ incidents[w].url # Null)
            => \A r \in RecordsOf(securityVault, w) :
                  /\ r.screenRecordingUrl = incidents[w].url
                  /\ r.status = "Archived")
  /\ [](\A w \in Incidents :
          "upload" \in incidents[w].failed
            => \A r \in RecordsOf(securityVault, w) :
                  r.status = "Detected" /\ r.screenRecordingUrl = Null)
  /\ [][\A w \in Incidents : UploadFails(w) =>
          /\ terminalLogs' # <<>>
          /\ Head(terminalLogs').severity \in {"error", "critical"}]_vars

\* C13: Monitoring is suspended during an alert: in every state with mode
\* Alert, the state a detection step leads to included, the armed flag is
\* off and the audit interval is not installed, so no tick runs an audit.
MonitoringSuspended ==
  currentStatus = "ALERT" => (~isShieldActive /\ ~auditIntervalId)

\* a detection has just put the terminal in Alert
AlertEntered ==
  currentStatus = "ALERT" /\ \E w \in Incidents : incidents[w].pc = "classify"

\* the audit function of detection w is between its guard and its return
InFlight(w) == incidents[w].pc \in {"classify", "persist", "acquire"}

\* the flag the audit guard reads
auditInFlight ==
  IF variant = "v6" THEN isAiProcessing ELSE isProcessingNeuralAudit

TimerOnlyInMonitoring == auditIntervalId => currentStatus = "MONITORING"

\* a tick that detects
Detects ==
  /\ \E f \in Frames, d \in BOOLEAN :
        executeNeuralAudit(f, d) \/ runSecurityAudit(f, d)
  /\ incidents' # incidents

\* C16: Detection lifecycle: a detection sets mode Alert; its workflow adds
\* exactly one record to the local log, with status Detected when added;
\* when analyze returned a text and the upload a URL, that record ends with
\* that classification, that URL and status Archived; the firing of the
\* re-arm timer sets mode Monitoring.
DetectionLifecycle ==
  /\ [][Detects => currentStatus' = "ALERT"]_vars
  /\ [][\A w \in Incidents :
          incidents'[w].records > incidents[w].records
            => \E r \in RecordsOf(securityVault', w) : r.status = "Detected"]_vars
  /\ [](\A w \in Incidents : incidents[w].pc = "done" => incidents[w].records = 1)
  /\ [](\A w \in Incidents :
          (incidents[w].recorder = "finished" /\ incidents[w].url # Null)
            => \A r \in RecordsOf(securityVault, w) :
                  /\ r.aiAnalysis = incidents[w].analysis
                  /\ r.screenRecordingUrl = incidents[w].url
                  /\ r.status = "Archived")
  /\ [][\A w \in Incidents :
          (incidents[w].rearm = "pending" /\ incidents'[w].rearm = "fired")
            => currentStatus' = "MONITORING"]_vars

\* C17: Toggling with an enrolled signature: a toggle in Monitoring sets
\* mode Idle and removes the audit interval, a toggle in Idle sets mode
\* Monitoring and installs it; the signature and the incident log are
\* unchanged by either.
ToggleEffects ==
  [][(biometricSignature # Null /\ ToggleStep) =>
       /\ currentStatus = "MONITORING"
            => (currentStatus' = "IDLE" /\ ~auditIntervalId')
       /\ currentStatus = "IDLE"
            => (currentStatus' = "MONITORING" /\ auditIntervalId')
       /\ UNCHANGED <<biometricSignature, securityVault>>]_vars

\* an enrollment whose frame capture returned null
EnrollmentFails ==
  handleBiometricEnrollment6(Null) \/ handleBiometricEnrollment4(Null)

FaultTerminal ==
  [][currentStatus = "HARDWARE_FAULT" => currentStatus' = "HARDWARE_FAULT"]_vars

\* the startup camera request is rejected
CameraFails == bootOpticalSensors(FALSE) \/ activateVision(FALSE)

\* C20: when acquiring the camera stream fails at startup, the camera status
\* shown to the user is OFFLINE and the mode becomes Fault.
CameraFailureFaults ==
  [][CameraFails =>
       /\ visionNode' = "OFFLINE"
       /\ currentStatus' = "HARDWARE_FAULT"]_vars

\* C21: Step ordering within one incident: persist is issued only after
\* classify has completed, evidence gathering only after persist has
\* completed, the upload only after the recorder has stopped, and the record
\* update only after the upload has completed.
StepOrdering ==
  \A w \in Incidents :
    LET inc == incidents[w] IN
    /\ "persist" \in inc.tried
         => /\ "classify" \in inc.tried \ inc.failed
            /\ inc.pc # "classify"
    /\ "evidence" \in inc.tried
         => /\ "persist" \in inc.tried \ inc.failed
            /\ inc.pc \notin {"classify", "persist"}
    /\ "upload" \in inc.tried
         => /\ "evidence" \in inc.tried \ inc.failed
            /\ inc.recorder \notin {"none", "recording"}
    /\ "update" \in inc.tried
         => /\ "upload" \in inc.tried \ inc.failed
            /\ inc.recorder \in {"update", "finished"}

\* an incident has gone through every step up to the record update
ArchiveIssued == \E w \in Incidents : "update" \in incidents[w].tried

\* C22: Screen recording is active only during an alert: no recorder is in
\* state 'recording' while mode is Monitoring or Idle.
RecordingOnlyInAlert ==
  \A w \in Incidents :
    incidents[w].recorder = "recording"
      => currentStatus \notin {"MONITORING", "IDLE"}

\* what makes a record of the local log the same record after a step
Key(r) == <<r.origin, IF r.origin = 0 THEN r.id ELSE 0>>

\* every record of log old is still in log new
Kept(old, new) ==
  \A i \in 1..Len(old) : \E j \in 1..Len(new) : Key(new[j]) = Key(old[i])

\* the user purges the incident log
PurgeStep == handleVaultPurge \/ purgeLogs

\* C23: the local incident log loses a record only in a purge step, which
\* empties it; every other step keeps every record that is in the log.
LogShrinksOnlyByPurge ==
  [][(PurgeStep /\ securityVault' = <<>>)
       \/ Kept(securityVault, securityVault')]_vars

\* C24: every record the alert workflow has put in the local log has
\* threatLevel High.
ThreatAlwaysHigh ==
  \A r \in Vault : r.origin # 0 => r.threatLevel = "High"

ConfigShortCircuit ==
  /\ ~isConfigValid => (~request.sent /\ ~request.success)
  /\ Len(keysPool) = 0
       => (call.attempts = <<>> /\ call.pc \notin {"attempt", "thrown"})

\* a workflow step of some incident fails
StepFails ==
  \E w \in Incidents : incidents'[w].failed # incidents[w].failed

\* C27: every step that changes the mode and every step in which a
\* workflow step fails puts a new entry at the head of the event log.
EventLogComplete ==
  [][(currentStatus' # currentStatus \/ StepFails)
       => (terminalLogs' # <<>> /\ terminalLogs' # terminalLogs)]_vars

\* how many times callWithRetry has invoked fn
Invocations ==
  Len(call.attempts) + (IF call.pc = "attempt" THEN 1 ELSE 0)

\* C28: callWithRetry invokes the operation at most retries times (3 for
\* analyze and chat); it returns the value of the first successful attempt
\* and then does nothing more; every attempt but the last made ended in a
\* retryable error (status 429 or 503, or a message containing '429'); when
\* every attempt ended in such an error it rejects with the last one's error.
ResilientCall ==
  /\ [](/\ Invocations <= call.retries
        /\ call.fn \in {"generateContent", "sendMessage"}
             => call.retries = DefaultRetries
        /\ \A k \in 1..(Invocations - 1) :
              call.attempts[k].kind = "error" /\ retryable(call.attempts[k])
        /\ call.pc = "returned"
             => /\ call.attempts # <<>>
                /\ call.attempts[Len(call.attempts)].kind = "value"
                /\ call.settled = call.attempts[Len(call.attempts)]
        /\ (/\ call.pc = "thrown"
            /\ call.attempts # <<>>
            /\ \A k \in 1..Len(call.attempts) : retryable(call.attempts[k]))
             => /\ Len(call.attempts) = call.retries
                /\ call.settled = call.attempts[Len(call.attempts)])
  /\ [][call.pc \in {"returned", "thrown"} => UNCHANGED call]_vars

\* every attempt of a call of two or more was rate limited, with different
\* errors, and the call has rejected
RetriesExhausted ==
  /\ call.pc = "thrown"
  /\ call.retries >= 2
  /\ Len(call.attempts) = call.retries
  /\ call.attempts[1] # call.attempts[2]
  /\ retryable(call.attempts[Len(call.attempts)])

\* C29: an attempt that fails with an error that is not retryable is the
\* last attempt of its call: the call has rejected with that error, whatever
\* is left of the retry budget.
NonRetryableRethrown ==
  \A k \in 1..Len(call.attempts) :
    (call.attempts[k].kind = "error" /\ ~retryable(call.attempts[k]))
      => /\ k = Len(call.attempts)
         /\ call.pc = "thrown"
         /\ call.settled = call.attempts[k]

\* a call has rejected on a non-retryable error with retries left
RethrownEarly ==
  /\ call.pc = "thrown"
  /\ call.attempts # <<>>
  /\ ~retryable(call.attempts[Len(call.attempts)])
  /\ Len(call.attempts) < call.retries

\* the record query of the startup handshake succeeds
HandshakeSucceeds ==
  initializeSentinel_query(FALSE) \/ bootstrapVault_query(FALSE)

\* the health check or the record query of the startup handshake fails
HandshakeFails ==
  \/ initializeSentinel_health(FALSE) \/ initializeSentinel_query(TRUE)
  \/ bootstrapVault_health(FALSE) \/ bootstrapVault_query(TRUE)

\* C30: Startup handshake: when the health check and the record query both
\* succeed, mode becomes Idle and the fetched records become the local log;
\* when either fails, mode becomes HARDWARE_FAULT and the local log is left
\* unchanged.
StartupHandshake ==
  [][/\ HandshakeSucceeds
          => /\ currentStatus' = "IDLE"
             /\ securityVault' = mappedRecords(Reverse(remote))
     /\ HandshakeFails
          => /\ currentStatus' = "HARDWARE_FAULT"
             /\ UNCHANGED securityVault]_vars

\* the startup handshake ends, with either result
HandshakeCompletes == HandshakeSucceeds \/ HandshakeFails

\* C31: the result of the startup handshake is applied only while mode is
\* still INITIALIZING: a handshake that completes after the user has
\* enrolled (mode Monitoring) or during an alert leaves the mode as it is,
\* and in no state is mode Idle or Fault while the audit interval is
\* installed.
LateHandshakeKeepsMode ==
  /\ [][(HandshakeCompletes /\ currentStatus \in {"MONITORING", "ALERT"})
          => UNCHANGED currentStatus]_vars
  /\ [](auditIntervalId => currentStatus \notin {"IDLE", "HARDWARE_FAULT"})

\* the guard of the audit function lets a tick through
auditAllowed == IF variant = "v6" THEN auditAllowed6 ELSE auditAllowed4

\* a tick whose frame capture returns null
CaptureFails ==
  \E d \in BOOLEAN : executeNeuralAudit(Null, d) \/ runSecurityAudit(Null, d)

\* C32: an audit whose frame capture fails is skipped: mode, signature and
\* the incident log (local and remote) are unchanged, no workflow, chat or
\* service call is started, and auditInFlight is false when it returns.
FailedCaptureSkipped ==
  [][(auditAllowed /\ CaptureFails) =>
       /\ UNCHANGED <<currentStatus, biometricSignature, securityVault,
                      remote, incidents, chatPending, call, request,
                      isShieldActive, auditIntervalId>>
       /\ ~auditInFlight']_vars

\* the interval is installed and its next tick passes the guard, after an
\* earlier alert has ended
AuditReady ==
  /\ auditIntervalId /\ auditAllowed
  /\ \E w \in Incidents : incidents[w].rearm = "fired"

\* C33: No detection without an enrolled owner: every step that enters
\* Alert or creates an incident is a detecting audit tick taken while the
\* signature is not null; while the signature is null (before enrollment or
\* after a purge) no tick enters Alert or creates an incident.
NoDetectionUnenrolled ==
  /\ [][Detects => biometricSignature # Null]_vars
  /\ [][(currentStatus' = "ALERT" /\ currentStatus # "ALERT") => Detects]_vars
  /\ [][(biometricSignature = Null /\ Tick)
          => UNCHANGED <<currentStatus, incidents, securityVault>>]_vars

\* the signature has been purged while the audit interval keeps ticking in
\* Monitoring
TickingUnenrolled ==
  /\ biometricSignature = Null
  /\ auditIntervalId /\ currentStatus = "MONITORING"
  /\ ~auditInFlight

\* C34: whenever mode is Monitoring the audit scheduler is armed: the
\* shield-active flag is true and the audit interval is installed.
MonitoringIsArmed ==
  currentStatus = "MONITORING" => (isShieldActive /\ auditIntervalId)

\* Monitoring has been restored by a re-arm after the startup handshake ended
MonitoringRestored ==
  /\ currentStatus = "MONITORING" /\ handshake = "done"
  /\ \A w \in Incidents : incidents[w].rearm = "fired"

\* an alert's analyzeIntrusion() call is in flight
Analyzing == \E w \in Incidents : incidents[w].pc = "classify"

\* C35: the AI-busy flag is true whenever an analyze or a chat call is in
\* flight, and a chat call and an alert's analyze call are never in flight
\* at the same time.
AiBusyExclusive ==
  /\ (Analyzing \/ chatPending > 0) => isAiProcessing
  /\ ~(Analyzing /\ chatPending > 0)

\* a step that will stop the tracks of w's stream is still to come: the
\* recorder is running, or its onstop handler is at one of its awaits
ReleasePending(w) == incidents[w].recorder \in {"recording", "upload", "update"}

\* C36: every screen-capture stream acquired for an incident is released,
\* whatever the outcome of the later steps: a stream that is still live
\* always has the step that stops its tracks ahead of it.
StreamReleased ==
  \A w \in Incidents : incidents[w].stream = "live" => ReleasePending(w)

\* C37: Evidence isolation: when an incident's recorder stops, the chunk
\* buffer its blob is made of holds only chunks of that incident's own
\* recorder, and no recording starts (and resets the shared chunk buffer)
\* while another recording is in progress.
EvidenceIsolation ==
  /\ [][\A w \in Incidents :
          (incidents[w].recorder = "recording"
             /\ incidents'[w].recorder = "upload")
            => \A i \in 1..Len(dataChunksRef') : dataChunksRef'[i] = w]_vars
  /\ [](Cardinality({w \in Incidents :
                       incidents[w].recorder = "recording"}) <= 1)

\* the chat form is submitted with input
Submits(input) ==
  handleNeuralConduitSubmit(input) \/ handleChatInterface(input)

\* the securityChat() call of a submission settles
ChatSettles ==
  \E t \in Replies :
    handleNeuralConduitSubmit_reply(t) \/ handleChatInterface_reply(t)

\* the conversation after one more message
Appended(m) == tail(Append(neuralConduit, m), conduitWindow)

\* C38: Chat submission: a submission with empty or whitespace-only input,
\* or made while the AI-busy flag is set, calls no service and leaves the
\* conversation unchanged; an accepted submission appends exactly one user
\* message, with the text submitted, and starts one call; when the call
\* settles exactly one AI message is appended and the busy flag is false.
ChatSubmission ==
  /\ [][\A input \in Submissions : Submits(input) =>
          IF input \in {"", "  "} \/ isAiProcessing
          THEN UNCHANGED <<neuralConduit, chatPending, isAiProcessing, call>>
          ELSE /\ neuralConduit' = Appended(Message("user", input))
               /\ chatPending' = chatPending + 1]_vars
  /\ [][ChatSettles =>
          /\ \E text \in Replies \cup
                 {"CORE_TIMEOUT: No intelligence returned.",
                  "FAULT_IDENTIFIED: Unable to reach Sentinel Intelligence Core.",
                  "AI_CORE_TIMEOUT: No response.",
                  "ERROR: Secure AI link disrupted. Check network integrity."} :
                /\ text \notin {Null, ""}
                /\ neuralConduit' = Appended(Message("ai", text))
          /\ chatPending' = chatPending - 1
          /\ ~isAiProcessing']_vars

\* a question and the fault message of its failed call are the newest
\* messages, and nothing is pending
ChatAnswered ==
  /\ chatPending = 0 /\ ~isAiProcessing
  /\ Len(neuralConduit) = 2
  /\ neuralConduit[1] = Message("user", "status?")
  /\ neuralConduit[2].role = "ai"
  /\ neuralConduit[2].text \in
       {"FAULT_IDENTIFIED: Unable to reach Sentinel Intelligence Core.",
        "ERROR: Secure AI link disrupted. Check network integrity."}

\* the startup requests and the camera request against the full-size console
FullLogNext == Startup \/ Sensors

FullLogSpec == FullLogInit /\ [][FullLogNext]_vars

\* the camera request of the startup effect is answered
SensorsAnswer == sensorBoot /\ ~sensorBoot'

SensorEvents ==
  {"Vision Node: Online. Stream integrity 100%.", "Sensor Fault: Access Denied",
   "Vision sensor online. Resolution: 1080p Full-HD.", "Vision Hardware Fault"}

\* the log has taken one new entry at its front, and lost its oldest entries
\* beyond the capacity and no other
PushedOne ==
  /\ terminalLogs' # <<>>
  /\ terminalLogs' = slice(<<terminalLogs'[1]>> \o terminalLogs, MAX_SYSTEM_LOGS)

\* C39: the event log never holds more than 150 entries; a step that logs
\* puts its entry at the front and keeps the entries the log held in their
\* order, dropping only the oldest ones beyond 150; a step that answers the
\* camera request always logs its event this way.
LogBoundedNewestFirst ==
  /\ [](Len(terminalLogs) <= MAX_SYSTEM_LOGS)
  /\ [][terminalLogs' = terminalLogs \/ PushedOne]_vars
  /\ [][SensorsAnswer =>
          PushedOne /\ terminalLogs'[1].message \in SensorEvents]_vars

\* the full log has taken new entries at its front and the mount events, the
\* oldest, are gone
LogOverflowed ==
  /\ ~sensorBoot /\ handshake = "done"
  /\ Len(terminalLogs) = MAX_SYSTEM_LOGS
  /\ terminalLogs[1] # armingRejected(variant)
  /\ terminalLogs[MAX_SYSTEM_LOGS] = armingRejected(variant)

====
